---- MODULE Spec2Model ----
(***************************************************************************)
(* A model of fastapi_csv.applications.FastAPI_CSV: the query parameters   *)
(* generated from the columns of a CSV file, the SQL text generic_get      *)
(* builds from a request, the sqlite3 connection that executes it, and the *)
(* delete_database / update_database lifecycle of that connection while a  *)
(* request is being served on another thread.                              *)
(*                                                                         *)
(* Text (a Python str, an SQL statement) is a sequence of one-character    *)
(* strings, so that slicing, concatenation and lexing are computed as the  *)
(* code and sqlite compute them.                                           *)
(***************************************************************************)
EXTENDS Integers, Sequences, FiniteSets, TLC

VARIABLES
    csv,            \* which of Sources the file at csv_path currently holds
    phase,          \* "new": before FastAPI_CSV(csv_path); "up"; "crashed"
    table_name,     \* self.table_name
    query_params,   \* route.dependant.query_params: sequence of [name, type_]
    con,            \* self.con: 0 is None, otherwise a connection id
    conns,          \* the sqlite3 connections: id -> [st, table, df, rf, fn]
    wpc,            \* lifecycle thread: position in delete/update_database
    w_op,           \* lifecycle thread: "none", "delete" or "update"
    w_df,           \* lifecycle thread: the local df of update_database
    w_res,          \* how the last lifecycle call ended: "none","ok","raised"
    qpc,            \* request thread: position in generic_get/query_database
    q_req,          \* request thread: kwargs of generic_get
    q_sql,          \* request thread: sql_query
    q_con,          \* request thread: the connection self.con evaluated to
    q_cur,          \* request thread: the cursor returned by execute
    q_res,          \* request thread: what the request ended with
    h_snap,         \* history: self.con when the request started
    h_over          \* history: the lifecycle calls that ran during the request

vars == <<csv, phase, table_name, query_params, con, conns, wpc, w_op, w_df,
          w_res, qpc, q_req, q_sql, q_con, q_cur, q_res, h_snap, h_over>>

----------------------------------------------------------------------------
(* Bounds of the model *)

\* connection ids; a connection nothing refers to is deallocated (and with it
\* closed) and its id is used again
MaxConn == 3

\* how many of Requests are served while a lifecycle call is running
NInterleaved == 2

\* how many lifecycle calls run while one request is being served
MaxOverlap == 1

----------------------------------------------------------------------------
(* Python values: None (also pandas' NaN), int, float, bool, str.  A float *)
(* is held in tenths: FloatV(305) is 30.5.                                 *)

NoneV == [k |-> "none", n |-> 0, s |-> <<>>]
IntV(n) == [k |-> "int", n |-> n, s |-> <<>>]
FloatV(t) == [k |-> "float", n |-> t, s |-> <<>>]
BoolV(b) == [k |-> "bool", n |-> IF b THEN 1 ELSE 0, s |-> <<>>]
StrV(s) == [k |-> "str", n |-> 0, s |-> s]

Digit == {"0", "1", "2", "3", "4", "5", "6", "7", "8", "9"}

\* str.endswith(suffix)
EndsWith(name, suffix) ==
    /\ Len(name) >= Len(suffix)
    /\ SubSeq(name, Len(name) - Len(suffix) + 1, Len(name)) = suffix

\* name[:-k] for k > 0
DropLast(name, k) ==
    SubSeq(name, 1, Len(name) - k)

\* the last position of character c in text, 0 when there is none
RECURSIVE LastIndexOf(_, _)
LastIndexOf(text, c) ==
    IF text = <<>> THEN 0
    ELSE IF text[Len(text)] = c THEN Len(text)
    ELSE LastIndexOf(SubSeq(text, 1, Len(text) - 1), c)

\* str.replace(old, new) for one-character old and new
Replace(text, old, new) ==
    [i \in 1..Len(text) |-> IF text[i] = old THEN new ELSE text[i]]

\* Path(path).stem: the final path component without its last suffix
Stem(path) ==
    LET base == SubSeq(path, LastIndexOf(path, "/") + 1, Len(path))
        dot == LastIndexOf(base, ".")
    IN  IF dot > 1 THEN SubSeq(base, 1, dot - 1) ELSE base

----------------------------------------------------------------------------
(* The CSV file.  A DataFrame is what pd.read_csv returns: the columns     *)
(* with their dtypes and the rows.  Sources are the contents the file at   *)
(* csv_path can have; the file can be edited between two loads.            *)

csv_path == <<"d","a","t","a","/","m","y","-","p","e","o","p","l","e",".","c","s","v">>

Col(name, dtype) == [name |-> name, dtype |-> dtype]

PeopleCols ==
    << Col(<<"n","a","m","e">>, "object"), Col(<<"a","g","e">>, "int64"),
       Col(<<"j","o","i","n","e","d">>, "object") >>

People1 ==
    [ cols |-> PeopleCols,
      rows |-> << <<StrV(<<"a","n","n","a">>), IntV(34), StrV(<<"2","0","2","0","-","0","1","-","1","5">>)>>,
                  <<StrV(<<"b","o","b">>), IntV(25), StrV(<<"2","0","2","1","-","0","6","-","0","1">>)>>,
                  <<StrV(<<"d","a","n">>), IntV(41), NoneV>>,
                  <<StrV(<<"a","n","n","a">>), IntV(30), StrV(<<"2","0","1","9","-","1","2","-","3","1">>)>> >> ]

People2 ==
    [ cols |-> PeopleCols,
      rows |-> << <<StrV(<<"z","e","d">>), IntV(50), StrV(<<"2","0","2","2","-","0","2","-","0","2">>)>>,
                  <<StrV(<<"a","n","n","a">>), IntV(34), StrV(<<"2","0","2","0","-","0","1","-","1","5">>)>> >> ]

\* a float, a bool and two str columns; note starts with a missing value and
\* day holds a date followed by a line break (a quoted CSV field)
Mixed ==
    [ cols |-> << Col(<<"s","c","o","r","e">>, "float64"), Col(<<"o","k">>, "bool"),
                  Col(<<"n","o","t","e">>, "object"), Col(<<"d","a","y">>, "object") >>,
      rows |-> << <<FloatV(15), BoolV(TRUE), NoneV, StrV(<<"2","0","2","0","-","0","1","-","1","5","\n">>)>>,
                  <<FloatV(300), BoolV(FALSE), StrV(<<"2","0","2","0","-","1","-","1","5">>),
                    StrV(<<"x">>)>> >> ]

\* a header line and no rows: pandas types every column object
HeaderOnly ==
    [ cols |-> << Col(<<"n","a","m","e">>, "object"), Col(<<"a","g","e">>, "object") >>,
      rows |-> << >> ]

\* True/False with a missing value: pandas keeps the bools in an object column
BoolWithNaN ==
    [ cols |-> << Col(<<"a","g","e">>, "int64"), Col(<<"o","k">>, "object") >>,
      rows |-> << <<IntV(1), NoneV>>, <<IntV(2), BoolV(TRUE)>> >> ]

\* two columns whose names differ only in case: one column name to sqlite
CaseClash ==
    [ cols |-> << Col(<<"N","a","m","e">>, "object"), Col(<<"n","a","m","e">>, "object") >>,
      rows |-> << <<StrV(<<"a">>), StrV(<<"b">>)>> >> ]

Source(readable, df) == [readable |-> readable, df |-> df]

Sources ==
    << Source(TRUE, People1), Source(TRUE, People2), Source(FALSE, People1),
       Source(TRUE, Mixed), Source(TRUE, HeaderOnly),
       Source(TRUE, BoolWithNaN), Source(TRUE, CaseClash) >>

\* the values of column c of df, top to bottom
ColumnValues(df, c) ==
    [i \in 1..Len(df.rows) |-> df.rows[i][c]]

\* the characters text is made of, in ASCII order
Ascii ==
    << "\n", " ", "$", "%", "'", "(", ")", "*", ",", "-", ".", "/",
       "0", "1", "2", "3", "4", "5", "6", "7", "8", "9", "<", "=", ">",
       "A", "B", "C", "D", "E", "F", "G", "H", "I", "J", "K", "L", "M",
       "N", "O", "P", "Q", "R", "S", "T", "U", "V", "W", "X", "Y", "Z",
       "[", "]", "^", "_",
       "a", "b", "c", "d", "e", "f", "g", "h", "i", "j", "k", "l", "m",
       "n", "o", "p", "q", "r", "s", "t", "u", "v", "w", "x", "y", "z" >>

Ord(ch) == CHOOSE i \in 1..Len(Ascii) : Ascii[i] = ch

UpperLetters == { Ascii[i] : i \in Ord("A")..Ord("Z") }
LowerLetters == { Ascii[i] : i \in Ord("a")..Ord("z") }

\* ASCII lower case of one character
Lower(ch) ==
    IF ch \in UpperLetters THEN Ascii[Ord(ch) - Ord("A") + Ord("a")] ELSE ch

LowerText(text) ==
    [i \in 1..Len(text) |-> Lower(text[i])]

\* df.to_sql raises: sqlite refuses CREATE TABLE with two columns of the same
\* name, and its column names are case-insensitive
to_sql_raises(df) ==
    \E i, j \in 1..Len(df.cols) :
        i < j /\ LowerText(df.cols[i].name) = LowerText(df.cols[j].name)

----------------------------------------------------------------------------
(* Column types and the generated query parameters                         *)

\* re.match(PATTERN, string) is not None, where PATTERN is four digits, "-",
\* two digits, "-", two digits between ^ and $; in Python $ also matches
\* before a line break that ends the string
is_date_string(string) ==
    /\ Len(string) >= 10
    /\ \A i \in {1, 2, 3, 4, 6, 7, 9, 10} : string[i] \in Digit
    /\ string[5] = "-"
    /\ string[8] = "-"
    /\ \/ Len(string) = 10
       \/ Len(string) = 11 /\ string[11] = "\n"

\* dtype_to_type: numpy/pandas dtype to Python type
dtype_to_type(dtype) ==
    IF dtype = "object" THEN "str"
    ELSE CASE dtype = "int64" -> "int"
           [] dtype = "float64" -> "float"
           [] dtype = "bool" -> "bool"

\* Series.first_valid_index(): the position (from 1) of the first value that
\* is not missing, 0 for Python's None when every value is missing
RECURSIVE first_valid_index(_, _)
first_valid_index(values, i) ==
    IF i > Len(values) THEN 0
    ELSE IF values[i].k # "none" THEN i
    ELSE first_valid_index(values, i + 1)

Param(name, type_) == [name |-> name, type_ |-> type_]

\* df[col].iloc[df[col].first_valid_index()] of a str column raises when
\* there is no valid index, and is_date_string raises on a value that is
\* not a str
ColumnRaises(df, c) ==
    LET values == ColumnValues(df, c)
        first == first_valid_index(values, 1)
    IN  /\ dtype_to_type(df.cols[c].dtype) = "str"
        /\ \/ first = 0
           \/ values[first].k # "str"

\* ColumnParams with `type_ == int` in the place of `type_ in (int, float)`
IntOnlyColumnParams(df, c) ==
    LET col == df.cols[c].name
        type_ == dtype_to_type(df.cols[c].dtype)
        values == ColumnValues(df, c)
    IN  << Param(col, type_), Param(col \o <<"_","s","e","l","e","c","t","e","d">>, "bool") >>
        \o (IF type_ = "int"
            THEN << Param(col \o <<"_","g","r","e","a","t","e","r","T","h","a","n">>, type_),
                    Param(col \o <<"_","g","r","e","a","t","e","r","T","h","a","n","E","q","u","a","l">>, type_),
                    Param(col \o <<"_","l","e","s","s","T","h","a","n">>, type_),
                    Param(col \o <<"_","l","e","s","s","T","h","a","n","E","q","u","a","l">>, type_) >>
            ELSE IF type_ = "str"
            THEN << Param(col \o <<"_","c","o","n","t","a","i","n","s">>, type_),
                    Param(col \o <<"_","l","i","k","e">>, type_),
                    Param(col \o <<"_","r","e","g","e","x">>, type_) >>
                 \o (IF is_date_string(values[first_valid_index(values, 1)].s)
                     THEN << Param(col \o <<"_","i","s","B","e","f","o","r","e">>, type_),
                             Param(col \o <<"_","i","s","A","f","t","e","r">>, type_) >>
                     ELSE << >>)
            ELSE << >>)

\* the body of the loop over zip(df.columns, df.dtypes) in __init__: the
\* parameters added for column c
ColumnParams(df, c) ==
    LET col == df.cols[c].name
        type_ == dtype_to_type(df.cols[c].dtype)
        values == ColumnValues(df, c)
    IN  << Param(col, type_), Param(col \o <<"_","s","e","l","e","c","t","e","d">>, "bool") >>
        \o (IF type_ \in {"int", "float"}
            THEN << Param(col \o <<"_","g","r","e","a","t","e","r","T","h","a","n">>, type_),
                    Param(col \o <<"_","g","r","e","a","t","e","r","T","h","a","n","E","q","u","a","l">>, type_),
                    Param(col \o <<"_","l","e","s","s","T","h","a","n">>, type_),
                    Param(col \o <<"_","l","e","s","s","T","h","a","n","E","q","u","a","l">>, type_) >>
            ELSE IF type_ = "str"
            THEN << Param(col \o <<"_","c","o","n","t","a","i","n","s">>, type_),
                    Param(col \o <<"_","l","i","k","e">>, type_),
                    Param(col \o <<"_","r","e","g","e","x">>, type_) >>
                 \o (IF is_date_string(values[first_valid_index(values, 1)].s)
                     THEN << Param(col \o <<"_","i","s","B","e","f","o","r","e">>, type_),
                             Param(col \o <<"_","i","s","A","f","t","e","r">>, type_) >>
                     ELSE << >>)
            ELSE << >>)

\* the parameters of the route after __init__: use_distinct, then those of
\* each column in the order of df.columns
RECURSIVE AllColumnParams(_, _)
AllColumnParams(df, c) ==
    IF c > Len(df.cols) THEN << >>
    ELSE ColumnParams(df, c) \o AllColumnParams(df, c + 1)

QueryParams(df) ==
    << Param(<<"u","s","e","_","d","i","s","t","i","n","c","t">>, "bool") >> \o AllColumnParams(df, 1)

\* __init__ raises while it adds the parameters
InitRaises(df) ==
    \E c \in 1..Len(df.cols) : ColumnRaises(df, c)

----------------------------------------------------------------------------
(* generic_get: from the keyword arguments of a request to SQL text        *)

\* str(n) of an int n >= 0
RECURSIVE DigitsOf(_)
DigitsOf(n) ==
    IF n < 10 THEN << Ascii[Ord("0") + n] >>
    ELSE DigitsOf(n \div 10) \o << Ascii[Ord("0") + (n % 10)] >>

\* str(n) of an int
IntText(n) ==
    IF n < 0 THEN <<"-">> \o DigitsOf(-n) ELSE DigitsOf(n)

\* repr of the float t/10
FloatText(t) ==
    LET a == IF t < 0 THEN -t ELSE t
    IN  (IF t < 0 THEN <<"-">> ELSE << >>)
        \o DigitsOf(a \div 10) \o <<".">> \o DigitsOf(a % 10)

\* f"{val}"
Format(val) ==
    CASE val.k = "str" -> val.s
      [] val.k = "int" -> IntText(val.n)
      [] val.k = "float" -> FloatText(val.n)
      [] val.k = "bool" -> IF val.n = 1 THEN <<"T","r","u","e">> ELSE <<"F","a","l","s","e">>
      [] val.k = "none" -> <<"N","o","n","e">>

\* sep.join(texts)
RECURSIVE Join(_, _)
Join(sep, texts) ==
    IF texts = << >> THEN << >>
    ELSE IF Len(texts) = 1 THEN texts[1]
    ELSE texts[1] \o sep \o Join(sep, Tail(texts))

Arg(name, val) == [name |-> name, val |-> val]

\* one pass of the loop over kwargs.items(): acc holds selected_cols,
\* where_clauses and use_distinct
LoopBody(acc, name, val) ==
    IF val.k = "none" THEN acc
    ELSE IF name = <<"u","s","e","_","d","i","s","t","i","n","c","t">>
    THEN [acc EXCEPT !.use_distinct = TRUE]
    ELSE IF EndsWith(name, <<"_","s","e","l","e","c","t","e","d">>)
    THEN [acc EXCEPT !.selected_cols = Append(@, DropLast(name, 9))]
    ELSE [acc EXCEPT !.where_clauses = Append(@,
        IF EndsWith(name, <<"_","g","r","e","a","t","e","r","T","h","a","n">>)
        THEN DropLast(name, 12) \o <<">">> \o Format(val)
        ELSE IF EndsWith(name, <<"_","g","r","e","a","t","e","r","T","h","a","n","E","q","u","a","l">>)
        THEN DropLast(name, 17) \o <<">","=">> \o Format(val)
        ELSE IF EndsWith(name, <<"_","l","e","s","s","T","h","a","n">>)
        THEN DropLast(name, 9) \o <<"<">> \o Format(val)
        ELSE IF EndsWith(name, <<"_","l","e","s","s","T","h","a","n","E","q","u","a","l">>)
        THEN DropLast(name, 14) \o <<"<","=">> \o Format(val)
        ELSE IF EndsWith(name, <<"_","c","o","n","t","a","i","n","s">>)
        THEN <<"i","n","s","t","r","(">> \o DropLast(name, 9) \o <<","," ","'">> \o Format(val)
             \o <<"'",")"," ",">"," ","0">>
        ELSE IF EndsWith(name, <<"_","l","i","k","e">>)
        THEN DropLast(name, 5) \o <<" ","L","I","K","E"," ","'">> \o Format(val) \o <<"'">>
        ELSE IF EndsWith(name, <<"_","r","e","g","e","x">>)
        THEN DropLast(name, 6) \o <<" ","R","E","G","E","X","P"," ","'">> \o Format(val) \o <<"'">>
        ELSE IF EndsWith(name, <<"_","i","s","B","e","f","o","r","e">>)
        THEN <<"D","A","T","E","(">> \o DropLast(name, 9) \o <<")"," ","<"," ","D","A","T","E","(","'">> \o Format(val)
             \o <<"'",")">>
        ELSE IF EndsWith(name, <<"_","i","s","A","f","t","e","r">>)
        THEN <<"D","A","T","E","(">> \o DropLast(name, 8) \o <<")"," ",">"," ","D","A","T","E","(","'">> \o Format(val)
             \o <<"'",")">>
        ELSE name \o <<"=">>
             \o (IF val.k = "str" THEN <<"'">> \o val.s \o <<"'">>
                 ELSE Format(val)))]

\* the loop over kwargs.items(), from item i on
RECURSIVE Loop(_, _, _)
Loop(acc, kwargs, i) ==
    IF i > Len(kwargs) THEN acc
    ELSE Loop(LoopBody(acc, kwargs[i].name, kwargs[i].val), kwargs, i + 1)

\* sql_query as generic_get hands it to query_database
generic_get(kwargs, table) ==
    LET acc == Loop([selected_cols |-> << >>, where_clauses |-> << >>,
                     use_distinct |-> FALSE], kwargs, 1)
        where == IF acc.where_clauses # << >>
                 THEN <<"W","H","E","R","E"," ">> \o Join(<<" ","A","N","D"," ">>, acc.where_clauses)
                 ELSE << >>
        selection == Join(<<",">>, acc.selected_cols)
    IN  <<"S","E","L","E","C","T"," ">>
        \o (IF acc.use_distinct THEN <<"D","I","S","T","I","N","C","T">> ELSE << >>)
        \o <<" ">>
        \o (IF Len(acc.selected_cols) # 0 THEN selection ELSE <<"*">>)
        \o <<" ","F","R","O","M"," ">> \o table \o <<" ">> \o where

----------------------------------------------------------------------------
(* sqlite: the tokens of an SQL statement                                  *)

Letter == UpperLetters \cup LowerLetters
IdentStart == Letter \cup {"_"}
IdentChar == IdentStart \cup Digit

Tok(t, s, n) == [t |-> t, s |-> s, n |-> n]

\* the last position j >= i - 1 with text[i..j] all in set
RECURSIVE SpanEnd(_, _, _)
SpanEnd(text, i, set) ==
    IF i <= Len(text) /\ text[i] \in set
    THEN SpanEnd(text, i + 1, set) ELSE i - 1

\* the number a run of digits denotes
RECURSIVE NumValue(_)
NumValue(digits) ==
    IF digits = << >> THEN 0
    ELSE 10 * NumValue(SubSeq(digits, 1, Len(digits) - 1))
         + (Ord(digits[Len(digits)]) - Ord("0"))

\* a string literal whose opening quote is before position i: the position
\* of its closing quote (0 when it is not closed) and its value, in which a
\* doubled quote stands for one quote
RECURSIVE StringLiteral(_, _, _)
StringLiteral(text, i, value) ==
    IF i > Len(text) THEN [end |-> 0, value |-> value]
    ELSE IF text[i] # "'" THEN StringLiteral(text, i + 1, Append(value, text[i]))
    ELSE IF i < Len(text) /\ text[i + 1] = "'"
    THEN StringLiteral(text, i + 2, Append(value, "'"))
    ELSE [end |-> i, value |-> value]

\* the position of the next line break from i on, Len(text) + 1 without one
RECURSIVE LineEnd(_, _)
LineEnd(text, i) ==
    IF i > Len(text) \/ text[i] = "\n" THEN i ELSE LineEnd(text, i + 1)

TwoCharOps == { <<">","=">>, <<"<","=">>, <<"<",">">>, <<"=","=">> }
OneCharOps == { "=", "<", ">", "(", ")", ",", "*", "-" }

\* the tokens of text from position i on, after toks; err is "" or the
\* error sqlite3 raises; "Unsupported" marks SQL outside this model
RECURSIVE Lex(_, _, _)
Lex(text, i, toks) ==
    IF i > Len(text) THEN [err |-> "", toks |-> toks]
    ELSE LET ch == text[i] IN
    IF ch \in {" ", "\n"} THEN Lex(text, i + 1, toks)
    ELSE IF ch \in IdentStart
    THEN LET j == SpanEnd(text, i, IdentChar)
         IN  Lex(text, j + 1, Append(toks, Tok("id", SubSeq(text, i, j), 0)))
    ELSE IF ch \in Digit
    THEN LET j == SpanEnd(text, i, Digit)
             real == j < Len(text) /\ text[j + 1] = "."
             k == IF real THEN SpanEnd(text, j + 2, Digit) ELSE j
             whole == NumValue(SubSeq(text, i, j))
         IN  IF k < Len(text) /\ text[k + 1] \in IdentChar
             THEN [err |-> "OperationalError", toks |-> toks]
             ELSE IF real /\ k # j + 2
             THEN [err |-> "Unsupported", toks |-> toks]
             ELSE IF real
             THEN Lex(text, k + 1, Append(toks,
                      Tok("real", << >>,
                          10 * whole + NumValue(SubSeq(text, k, k)))))
             ELSE Lex(text, k + 1, Append(toks, Tok("int", << >>, whole)))
    ELSE IF ch = "'"
    THEN LET lit == StringLiteral(text, i + 1, << >>)
         IN  IF lit.end = 0
             THEN [err |-> "OperationalError", toks |-> toks]
             ELSE Lex(text, lit.end + 1,
                      Append(toks, Tok("str", lit.value, 0)))
    ELSE IF i < Len(text) /\ SubSeq(text, i, i + 1) = <<"-","-">>
    THEN Lex(text, LineEnd(text, i), toks)
    ELSE IF i < Len(text) /\ SubSeq(text, i, i + 1) \in TwoCharOps
    THEN Lex(text, i + 2, Append(toks, Tok("op", SubSeq(text, i, i + 1), 0)))
    ELSE IF ch \in OneCharOps
    THEN Lex(text, i + 1, Append(toks, Tok("op", <<ch>>, 0)))
    ELSE [err |-> "Unsupported", toks |-> toks]

----------------------------------------------------------------------------
(* sqlite: parsing SELECT [DISTINCT] columns FROM table [WHERE expr].  An  *)
(* expression is OR over AND over comparisons of operands: literals,       *)
(* column names, function calls, parentheses.                              *)

Kw(tok, word) == tok.t = "id" /\ LowerText(tok.s) = word
IsOp(tok, text) == tok.t = "op" /\ tok.s = text

CmpOps == { <<"=">>, <<"=","=">>, <<"<">>, <<"<","=">>, <<">">>, <<">","=">>, <<"<",">">> }
CmpWords == { <<"l","i","k","e">>, <<"r","e","g","e","x","p">> }

\* keywords that cannot be used as a name
Reserved ==
    { <<"s","e","l","e","c","t">>, <<"d","i","s","t","i","n","c","t">>, <<"f","r","o","m">>, <<"w","h","e","r","e">>, <<"a","n","d">>, <<"o","r">>,
      <<"n","o","t">>, <<"l","i","k","e">>, <<"r","e","g","e","x","p">>, <<"i","n","d","e","x">>, <<"i","s">>, <<"i","n">>,
      <<"b","e","t","w","e","e","n">>, <<"o","r","d","e","r">>, <<"g","r","o","u","p">>, <<"b","y">>, <<"l","i","m","i","t">>, <<"a","s">>,
      <<"t","a","b","l","e">>, <<"u","n","i","o","n">>, <<"h","a","v","i","n","g">>, <<"g","l","o","b">>, <<"m","a","t","c","h">>, <<"e","s","c","a","p","e">>,
      <<"c","o","l","l","a","t","e">>, <<"i","s","n","u","l","l">>, <<"n","o","t","n","u","l","l">>, <<"e","x","c","e","p","t">>, <<"i","n","t","e","r","s","e","c","t">>,
      <<"c","a","s","e">>, <<"w","h","e","n">>, <<"t","h","e","n">>, <<"e","l","s","e">>, <<"e","x","i","s","t","s">>, <<"j","o","i","n">> }

\* keywords that continue a statement in ways this model leaves out
Continuations == Reserved \ { <<"s","e","l","e","c","t">>, <<"d","i","s","t","i","n","c","t">>, <<"f","r","o","m">>,
                              <<"w","h","e","r","e">>, <<"a","n","d">>, <<"o","r">>, <<"l","i","k","e">>,
                              <<"r","e","g","e","x","p">>, <<"i","n","d","e","x">>, <<"t","a","b","l","e">> }

IsCmp(tok) ==
    \/ tok.t = "op" /\ tok.s \in CmpOps
    \/ tok.t = "id" /\ LowerText(tok.s) \in CmpWords

Lit(v) == [op |-> "lit", v |-> v]
ColRef(s) == [op |-> "col", s |-> s]
FnCall(f, args) == [op |-> "call", f |-> f, args |-> args]
Cmp(f, l, r) == [op |-> "cmp", f |-> f, l |-> l, r |-> r]
Bin(f, l, r) == [op |-> f, l |-> l, r |-> r]

Parsed(node, pos) == [err |-> "", node |-> node, pos |-> pos]
Failed(err, pos) == [err |-> err, node |-> Lit(NoneV), pos |-> pos]

\* the error for the token at pos where the grammar expects something else
Unexpected(toks, pos) ==
    IF pos > Len(toks) THEN "OperationalError"
    ELSE IF \/ toks[pos].t = "op" /\ toks[pos].s \in { <<"*">>, <<"-">> }
            \/ toks[pos].t = "id" /\ LowerText(toks[pos].s) \in Continuations
    THEN "Unsupported"
    ELSE "OperationalError"

RECURSIVE ParseOr(_, _), ParseOrRest(_, _), ParseAnd(_, _)
RECURSIVE ParseAndRest(_, _), ParseCmp(_, _), ParseOperand(_, _)
RECURSIVE ParseArgs(_, _, _)

ParseOperand(toks, p) ==
    IF p > Len(toks) THEN Failed("OperationalError", p)
    ELSE LET tok == toks[p] IN
    IF tok.t = "int" THEN Parsed(Lit(IntV(tok.n)), p + 1)
    ELSE IF tok.t = "real" THEN Parsed(Lit(FloatV(tok.n)), p + 1)
    ELSE IF tok.t = "str" THEN Parsed(Lit(StrV(tok.s)), p + 1)
    ELSE IF IsOp(tok, <<"-">>)
    THEN IF p < Len(toks) /\ toks[p + 1].t = "int"
         THEN Parsed(Lit(IntV(-toks[p + 1].n)), p + 2)
         ELSE IF p < Len(toks) /\ toks[p + 1].t = "real"
         THEN Parsed(Lit(FloatV(-toks[p + 1].n)), p + 2)
         ELSE Failed("Unsupported", p)
    ELSE IF IsOp(tok, <<"(">>)
    THEN LET Close(e) ==
                 IF e.err # "" THEN e
                 ELSE IF e.pos <= Len(toks) /\ IsOp(toks[e.pos], <<")">>)
                 THEN Parsed(e.node, e.pos + 1)
                 ELSE Failed(Unexpected(toks, e.pos), e.pos)
         IN  Close(ParseOr(toks, p + 1))
    ELSE IF tok.t = "id"
    THEN IF p < Len(toks) /\ IsOp(toks[p + 1], <<"(">>)
         THEN LET Applied(a) ==
                      IF a.err # "" THEN a
                      ELSE Parsed(FnCall(LowerText(tok.s), a.node), a.pos)
              IN  Applied(ParseArgs(toks, p + 2, << >>))
         ELSE LET Named(word) ==
                      IF word = <<"t","r","u","e">> THEN Parsed(Lit(IntV(1)), p + 1)
                      ELSE IF word = <<"f","a","l","s","e">> THEN Parsed(Lit(IntV(0)), p + 1)
                      ELSE IF word = <<"n","u","l","l">> THEN Parsed(Lit(NoneV), p + 1)
                      ELSE IF word \in Continuations
                      THEN Failed("Unsupported", p)
                      ELSE IF word \in Reserved
                      THEN Failed("OperationalError", p)
                      ELSE Parsed(ColRef(tok.s), p + 1)
              IN  Named(LowerText(tok.s))
    ELSE Failed(Unexpected(toks, p), p)

\* the arguments of a call, from the token after "(" to the one after ")"
ParseArgs(toks, p, args) ==
    LET More(a) ==
            IF a.err # "" THEN a
            ELSE IF a.pos <= Len(toks) /\ IsOp(toks[a.pos], <<",">>)
            THEN ParseArgs(toks, a.pos + 1, Append(args, a.node))
            ELSE IF a.pos <= Len(toks) /\ IsOp(toks[a.pos], <<")">>)
            THEN Parsed(Append(args, a.node), a.pos + 1)
            ELSE Failed(Unexpected(toks, a.pos), a.pos)
    IN  More(ParseOperand(toks, p))

ParseCmp(toks, p) ==
    LET Right(l, r) ==
            IF r.err # "" THEN r
            ELSE IF r.pos <= Len(toks) /\ IsCmp(toks[r.pos])
            THEN Failed("Unsupported", r.pos)
            ELSE Parsed(Cmp(LowerText(toks[l.pos].s), l.node, r.node), r.pos)
        Left(l) ==
            IF l.err # "" THEN l
            ELSE IF l.pos <= Len(toks) /\ IsCmp(toks[l.pos])
            THEN Right(l, ParseOperand(toks, l.pos + 1))
            ELSE l
    IN  Left(ParseOperand(toks, p))

ParseAndRest(toks, left) ==
    IF left.err = "" /\ left.pos <= Len(toks) /\ Kw(toks[left.pos], <<"a","n","d">>)
    THEN LET Right(r) ==
                 IF r.err # "" THEN r
                 ELSE ParseAndRest(toks, Parsed(Bin("and", left.node, r.node),
                                                r.pos))
         IN  Right(ParseCmp(toks, left.pos + 1))
    ELSE left

ParseAnd(toks, p) == ParseAndRest(toks, ParseCmp(toks, p))

ParseOrRest(toks, left) ==
    IF left.err = "" /\ left.pos <= Len(toks) /\ Kw(toks[left.pos], <<"o","r">>)
    THEN LET Right(r) ==
                 IF r.err # "" THEN r
                 ELSE ParseOrRest(toks, Parsed(Bin("or", left.node, r.node),
                                               r.pos))
         IN  Right(ParseAnd(toks, left.pos + 1))
    ELSE left

ParseOr(toks, p) == ParseOrRest(toks, ParseAnd(toks, p))

\* the names of a result-column list from position p on
RECURSIVE ParseNames(_, _, _)
ParseNames(toks, p, names) ==
    IF p > Len(toks) THEN Failed("OperationalError", p)
    ELSE IF toks[p].t = "id" /\ LowerText(toks[p].s) \notin Reserved
    THEN IF p < Len(toks) /\ IsOp(toks[p + 1], <<",">>)
         THEN ParseNames(toks, p + 2, Append(names, toks[p].s))
         ELSE IF p < Len(toks) /\ Kw(toks[p + 1], <<"f","r","o","m">>)
         THEN Parsed(Append(names, toks[p].s), p + 1)
         ELSE IF p = Len(toks) THEN Failed("OperationalError", p + 1)
         ELSE Failed("Unsupported", p + 1)
    ELSE IF toks[p].t = "id" /\ LowerText(toks[p].s) \notin Continuations
    THEN Failed("OperationalError", p)
    ELSE IF toks[p].t = "op" /\ toks[p].s \in { <<",">>, <<")">> } \cup CmpOps
    THEN Failed("OperationalError", p)
    ELSE Failed("Unsupported", p)

Stmt(err, distinct, star, cols, table, where) ==
    [err |-> err, distinct |-> distinct, star |-> star, cols |-> cols,
     table |-> table, where |-> where]

BadStmt(err) == Stmt(err, FALSE, FALSE, << >>, << >>, Lit(IntV(1)))

\* the statement the tokens make up
ParseSelect(toks) ==
    IF toks = << >> \/ ~Kw(toks[1], <<"s","e","l","e","c","t">>) THEN BadStmt("Unsupported")
    ELSE
    LET Where(distinct, star, names, f, e) ==
            IF e.err # "" THEN BadStmt(e.err)
            ELSE IF e.pos <= Len(toks) THEN BadStmt(Unexpected(toks, e.pos))
            ELSE Stmt("", distinct, star, names.node, toks[f + 1].s, e.node)
        From(distinct, star, names, f) ==
            IF names.err # "" THEN BadStmt(names.err)
            ELSE IF f > Len(toks) THEN BadStmt("OperationalError")
            ELSE IF ~Kw(toks[f], <<"f","r","o","m">>) THEN BadStmt(Unexpected(toks, f))
            ELSE IF f + 1 > Len(toks) THEN BadStmt("OperationalError")
            ELSE IF toks[f + 1].t # "id" THEN BadStmt(Unexpected(toks, f + 1))
            ELSE IF LowerText(toks[f + 1].s) \in Reserved
            THEN BadStmt("OperationalError")
            ELSE IF f + 1 = Len(toks)
            THEN Stmt("", distinct, star, names.node, toks[f + 1].s,
                      Lit(IntV(1)))
            ELSE IF ~Kw(toks[f + 2], <<"w","h","e","r","e">>) THEN BadStmt("Unsupported")
            ELSE Where(distinct, star, names, f, ParseOr(toks, f + 3))
        Names(distinct, star, names) == From(distinct, star, names, names.pos)
        Columns(distinct, p, star) ==
            Names(distinct, star, IF star THEN Parsed(<< >>, p + 1)
                                  ELSE ParseNames(toks, p, << >>))
        Select(distinct, p) ==
            Columns(distinct, p, p <= Len(toks) /\ IsOp(toks[p], <<"*">>))
        Start(distinct) == Select(distinct, IF distinct THEN 3 ELSE 2)
    IN  Start(Len(toks) >= 2 /\ Kw(toks[2], <<"d","i","s","t","i","n","c","t">>))

\* sqlite3_prepare of the SQL text
Compile(sql) ==
    LET Lexed(l) == IF l.err # "" THEN BadStmt(l.err) ELSE ParseSelect(l.toks)
    IN  Lexed(Lex(sql, 1, << >>))

----------------------------------------------------------------------------
(* sqlite: the table df.to_sql writes, and the evaluation of a statement   *)

ErrorV == [k |-> "error", n |-> 0, s |-> << >>]
UnsupportedV == [k |-> "unsupported", n |-> 0, s |-> << >>]

IsNumber(v) == v.k \in {"int", "float"}
Failing(v) == v.k \in {"error", "unsupported"}

\* a number in tenths
Tenths(v) == IF v.k = "int" THEN 10 * v.n ELSE v.n

\* the column type to_sql declares for column c of df
Affinity(df, c) ==
    LET dtype == df.cols[c].dtype
    IN  IF dtype = "float64" THEN "real"
        ELSE IF dtype \in {"int64", "bool"} THEN "int"
        ELSE IF \A i \in 1..Len(df.rows) : df.rows[i][c].k \in {"none", "str"}
        THEN "text"
        ELSE "int"

\* the name to_sql gives the column that holds the DataFrame's index
IndexLabel(df) ==
    IF \E c \in 1..Len(df.cols) : df.cols[c].name = <<"i","n","d","e","x">>
    THEN <<"l","e","v","e","l","_","0">> ELSE <<"i","n","d","e","x">>

\* the columns of the table to_sql creates: the index, then those of df
TableCols(df) ==
    << [name |-> IndexLabel(df), aff |-> "int"] >>
    \o [c \in 1..Len(df.cols) |->
           [name |-> df.cols[c].name, aff |-> Affinity(df, c)]]

\* the value sqlite stores for a Python value
Stored(v) == IF v.k = "bool" THEN IntV(v.n) ELSE v

\* the rows of the table to_sql fills, in rowid order
TableRows(df) ==
    [i \in 1..Len(df.rows) |->
        << IntV(i - 1) >> \o [c \in 1..Len(df.cols) |-> Stored(df.rows[i][c])]]

\* the position of the column called name (names are case-insensitive), or 0
ColIndex(cols, name) ==
    IF \E c \in 1..Len(cols) : LowerText(cols[c].name) = LowerText(name)
    THEN CHOOSE c \in 1..Len(cols) : LowerText(cols[c].name) = LowerText(name)
    ELSE 0

\* text is an integer or a real with one decimal, as sqlite reads numbers
\* (exponents, blanks and longer fractions are outside the model)
LooksNumeric(text) ==
    LET body == IF text # << >> /\ text[1] = "-" THEN Tail(text) ELSE text
        j == SpanEnd(body, 1, Digit)
    IN  /\ j >= 1
        /\ \/ j = Len(body)
           \/ j + 2 = Len(body) /\ body[j + 1] = "." /\ body[j + 2] \in Digit

TextToNumber(text) ==
    LET neg == text[1] = "-"
        body == IF neg THEN Tail(text) ELSE text
        j == SpanEnd(body, 1, Digit)
        whole == NumValue(SubSeq(body, 1, j))
        sign == IF neg THEN -1 ELSE 1
    IN  IF j = Len(body) THEN IntV(sign * whole)
        ELSE FloatV(sign * (10 * whole + NumValue(SubSeq(body, j + 2, j + 2))))

\* NUMERIC and TEXT affinity applied to an operand before a comparison
ApplyNumeric(v) ==
    IF v.k = "str" /\ LooksNumeric(v.s) THEN TextToNumber(v.s) ELSE v

ApplyText(v) ==
    IF IsNumber(v) THEN StrV(Format(v)) ELSE v

\* -1, 0, 1 as text a sorts before, with, after text b (memcmp order)
RECURSIVE CompareText(_, _)
CompareText(a, b) ==
    IF a = << >> THEN (IF b = << >> THEN 0 ELSE -1)
    ELSE IF b = << >> THEN 1
    ELSE IF Ord(a[1]) < Ord(b[1]) THEN -1
    ELSE IF Ord(a[1]) > Ord(b[1]) THEN 1
    ELSE CompareText(Tail(a), Tail(b))

\* -1, 0, 1 for two values that are not NULL: numbers sort before text
Compare(a, b) ==
    IF IsNumber(a) /\ IsNumber(b)
    THEN (IF Tenths(a) < Tenths(b) THEN -1
          ELSE IF Tenths(a) > Tenths(b) THEN 1 ELSE 0)
    ELSE IF IsNumber(a) THEN -1
    ELSE IF IsNumber(b) THEN 1
    ELSE CompareText(a.s, b.s)

\* text[i..] starts with part
StartsAt(text, i, part) ==
    /\ i + Len(part) - 1 <= Len(text)
    /\ SubSeq(text, i, i + Len(part) - 1) = part

\* instr(text, part): the first position of part in text, or 0
Instr(text, part) ==
    IF \E i \in 1..(Len(text) + 1) : StartsAt(text, i, part)
    THEN CHOOSE i \in 1..(Len(text) + 1) :
             /\ StartsAt(text, i, part)
             /\ \A j \in 1..(i - 1) : ~StartsAt(text, j, part)
    ELSE 0

\* the LIKE operator on lower-cased pattern and text: % is any run of
\* characters, _ any one character
RECURSIVE LikeMatch(_, _)
LikeMatch(pattern, text) ==
    IF pattern = << >> THEN text = << >>
    ELSE IF pattern[1] = "%"
    THEN \E k \in 0..Len(text) :
             LikeMatch(Tail(pattern), SubSeq(text, k + 1, Len(text)))
    ELSE /\ text # << >>
         /\ pattern[1] = "_" \/ pattern[1] = text[1]
         /\ LikeMatch(Tail(pattern), Tail(text))

\* the characters with a meaning of their own in a Python regular expression
RegexMeta ==
    { ".", "^", "$", "*", "+", "?", "{", "}", "[", "]", "\\", "|", "(", ")" }

Count(text, ch) == Cardinality({ i \in 1..Len(text) : text[i] = ch })

\* re.compile(pattern) raises: a character set that is not closed, groups
\* that do not balance, a repetition of nothing
RegexInvalid(pattern) ==
    \/ \E i \in 1..Len(pattern) :
          /\ pattern[i] = "["
          /\ \A j \in (i + 1)..Len(pattern) : pattern[j] # "]"
          /\ \A j \in 1..(i - 1) : pattern[j] \notin {"[", "\\"}
    \/ /\ \A i \in 1..Len(pattern) : pattern[i] \notin {"[", "\\"}
       /\ Count(pattern, "(") # Count(pattern, ")")
    \/ pattern # << >> /\ pattern[1] \in {"*", "+", "?"}

\* the pattern without a leading ^ and a trailing $
RegexCore(pattern) ==
    LET a == IF pattern # << >> /\ pattern[1] = "^" THEN 2 ELSE 1
        b == IF Len(pattern) >= a /\ pattern[Len(pattern)] = "$"
             THEN Len(pattern) - 1 ELSE Len(pattern)
    IN  SubSeq(pattern, a, b)

\* the patterns whose search is modelled: literal characters and ".",
\* between an optional ^ and an optional $
RegexModelled(pattern) ==
    \A i \in 1..Len(RegexCore(pattern)) :
        RegexCore(pattern)[i] \notin (RegexMeta \ {"."})

\* re.compile(pattern).search(text) is not None
RegexSearch(pattern, text) ==
    LET core == RegexCore(pattern)
        fromStart == pattern # << >> /\ pattern[1] = "^"
        toEnd == Len(pattern) >= (IF fromStart THEN 2 ELSE 1)
                 /\ pattern[Len(pattern)] = "$"
    IN  \E i \in 1..(Len(text) + 1) :
            /\ fromStart => i = 1
            /\ i + Len(core) - 1 <= Len(text)
            /\ \A j \in 1..Len(core) :
                   IF core[j] = "." THEN text[i + j - 1] # "\n"
                   ELSE text[i + j - 1] = core[j]
            /\ toEnd =>
                   \/ i + Len(core) - 1 = Len(text)
                   \/ /\ i + Len(core) = Len(text)
                      /\ text[Len(text)] = "\n"

\* the function registered as REGEXP: regexp(expr, item)
regexp(expr, item) ==
    IF item.k = "none" THEN IntV(0)
    ELSE IF expr.k # "str" \/ RegexInvalid(expr.s) THEN ErrorV
    ELSE IF item.k # "str" THEN ErrorV
    ELSE IF ~RegexModelled(expr.s) THEN UnsupportedV
    ELSE IntV(IF RegexSearch(expr.s, item.s) THEN 1 ELSE 0)

\* sqlite's DATE(): a YYYY-MM-DD text, also followed by blanks, gives that
\* date; text that is no date gives NULL
Date(v) ==
    IF v.k = "none" THEN NoneV
    ELSE IF v.k # "str" THEN UnsupportedV
    ELSE LET s == v.s
             shaped == /\ Len(s) >= 10
                       /\ \A i \in {1, 2, 3, 4, 6, 7, 9, 10} : s[i] \in Digit
                       /\ s[5] = "-"
                       /\ s[8] = "-"
             month == NumValue(SubSeq(s, 6, 7))
             day == NumValue(SubSeq(s, 9, 10))
         IN  IF shaped
             THEN IF \E i \in 11..Len(s) : s[i] \notin {" ", "\n"}
                  THEN UnsupportedV
                  ELSE IF month \notin 1..12 \/ day = 0 THEN NoneV
                  ELSE IF day > (IF month = 2 THEN 28
                                 ELSE IF month \in {4, 6, 9, 11} THEN 30
                                 ELSE 31)
                  THEN UnsupportedV
                  ELSE StrV(SubSeq(s, 1, 10))
             ELSE IF LooksNumeric(s) \/ LowerText(s) = <<"n","o","w">>
             THEN UnsupportedV
             ELSE NoneV

\* the truth of a value in WHERE, AND and OR: "true", "false" or "null"
Truth(v) ==
    IF v.k = "none" THEN "null"
    ELSE IF IsNumber(ApplyNumeric(v)) /\ ApplyNumeric(v).n # 0 THEN "true"
    ELSE "false"

\* the affinity of an operand: that of its column, if it is a column
OperandAffinity(node, cols) ==
    IF node.op = "col" /\ ColIndex(cols, node.s) # 0
    THEN cols[ColIndex(cols, node.s)].aff ELSE "none"

\* a comparison of two operand values
Comparison(f, l, r, laff, raff) ==
    IF Failing(l) THEN l
    ELSE IF Failing(r) THEN r
    ELSE IF f = <<"r","e","g","e","x","p">> THEN regexp(r, l)
    ELSE IF l.k = "none" \/ r.k = "none" THEN NoneV
    ELSE IF f = <<"l","i","k","e">>
    THEN IntV(IF LikeMatch(LowerText(ApplyText(r).s), LowerText(ApplyText(l).s))
              THEN 1 ELSE 0)
    ELSE LET a == IF raff \in {"int", "real"} /\ laff \in {"text", "none"}
                  THEN ApplyNumeric(l)
                  ELSE IF raff = "text" /\ laff = "none" THEN ApplyText(l)
                  ELSE l
             b == IF laff \in {"int", "real"} /\ raff \in {"text", "none"}
                  THEN ApplyNumeric(r)
                  ELSE IF laff = "text" /\ raff = "none" THEN ApplyText(r)
                  ELSE r
             c == Compare(a, b)
         IN  IntV(IF \/ f \in { <<"=">>, <<"=","=">> } /\ c = 0
                     \/ f = <<"<">> /\ c < 0
                     \/ f = <<"<","=">> /\ c <= 0
                     \/ f = <<">">> /\ c > 0
                     \/ f = <<">","=">> /\ c >= 0
                     \/ f = <<"<",">">> /\ c # 0
                  THEN 1 ELSE 0)

\* the value of an expression on one row; the right side of AND is not
\* evaluated when the left is not true, that of OR when the left is true
RECURSIVE Eval(_, _, _)
Eval(node, row, cols) ==
    IF node.op = "lit" THEN node.v
    ELSE IF node.op = "col" THEN row[ColIndex(cols, node.s)]
    ELSE IF node.op = "call"
    THEN LET args == [i \in 1..Len(node.args) |-> Eval(node.args[i], row, cols)]
         IN  IF \E i \in 1..Len(args) : Failing(args[i])
             THEN args[CHOOSE i \in 1..Len(args) : Failing(args[i])]
             ELSE IF node.f = <<"d","a","t","e">> THEN Date(args[1])
             ELSE IF args[1].k = "none" \/ args[2].k = "none" THEN NoneV
             ELSE IntV(Instr(ApplyText(args[1]).s, ApplyText(args[2]).s))
    ELSE IF node.op = "cmp"
    THEN Comparison(node.f, Eval(node.l, row, cols), Eval(node.r, row, cols),
                    OperandAffinity(node.l, cols),
                    OperandAffinity(node.r, cols))
    ELSE LET l == Eval(node.l, row, cols)
         IN  IF Failing(l) THEN l
             ELSE IF node.op = "and" /\ Truth(l) # "true"
             THEN (IF Truth(l) = "null" THEN NoneV ELSE IntV(0))
             ELSE IF node.op = "or" /\ Truth(l) = "true" THEN IntV(1)
             ELSE LET r == Eval(node.r, row, cols)
                  IN  IF Failing(r) THEN r
                      ELSE IF node.op = "and"
                      THEN (IF Truth(r) = "true" THEN IntV(1)
                            ELSE IF Truth(r) = "null" THEN NoneV
                            ELSE IntV(0))
                      ELSE (IF Truth(r) = "true" THEN IntV(1)
                            ELSE IF Truth(l) = "null" \/ Truth(r) = "null"
                            THEN NoneV
                            ELSE IntV(0))

\* what sqlite3_prepare refuses in an expression: a column the table does
\* not have, a function that does not exist
RECURSIVE NodeError(_, _, _)
NodeError(node, cols, fn) ==
    IF node.op = "lit" THEN ""
    ELSE IF node.op = "col"
    THEN (IF ColIndex(cols, node.s) = 0 THEN "OperationalError" ELSE "")
    ELSE IF node.op = "call"
    THEN LET errs == { NodeError(node.args[i], cols, fn) :
                           i \in 1..Len(node.args) }
         IN  IF "Unsupported" \in errs THEN "Unsupported"
             ELSE IF "OperationalError" \in errs THEN "OperationalError"
             ELSE IF node.f = <<"i","n","s","t","r">> /\ Len(node.args) = 2 THEN ""
             ELSE IF node.f = <<"d","a","t","e">> /\ Len(node.args) = 1 THEN ""
             ELSE "Unsupported"
    ELSE LET errs == { NodeError(node.l, cols, fn), NodeError(node.r, cols, fn) }
         IN  IF "Unsupported" \in errs THEN "Unsupported"
             ELSE IF "OperationalError" \in errs THEN "OperationalError"
             ELSE IF node.op = "cmp" /\ node.f = <<"r","e","g","e","x","p">> /\ ~fn
             THEN "OperationalError"
             ELSE ""

----------------------------------------------------------------------------
(* sqlite3 connections and cursors                                         *)

\* a connection: st is "free" (no such object), "open" or "closed"; table is
\* "none", "empty" (created, rows not yet written) or "full"; df is the
\* source the table was written from; rf: row_factory is dict_factory;
\* fn: the REGEXP function is registered
Conn(st, table, df, rf, fn) ==
    [st |-> st, table |-> table, df |-> df, rf |-> rf, fn |-> fn]

FreeConn == Conn("free", "none", 0, FALSE, FALSE)
NewConn == Conn("open", "none", 0, FALSE, FALSE)

\* the error sqlite3 raises when it prepares sql on conn, or ""
PrepareError(stmt, conn, table) ==
    IF stmt.err # "" THEN stmt.err
    ELSE IF conn.table = "none" \/ LowerText(stmt.table) # LowerText(table)
    THEN "OperationalError"
    ELSE LET cols == TableCols(Sources[conn.df].df)
         IN  IF \E i \in 1..Len(stmt.cols) : ColIndex(cols, stmt.cols[i]) = 0
             THEN "OperationalError"
             ELSE NodeError(stmt.where, cols, conn.fn)

\* the rows in order that are not equal to an earlier one
RECURSIVE Distinct(_, _)
Distinct(rows, seen) ==
    IF rows = << >> THEN seen
    ELSE IF \E i \in 1..Len(seen) : seen[i] = rows[1]
    THEN Distinct(Tail(rows), seen)
    ELSE Distinct(Tail(rows), Append(seen, rows[1]))

\* the members of a sequence of positions that satisfy keep, in order
RECURSIVE Keep(_, _)
Keep(items, keep) ==
    IF items = << >> THEN << >>
    ELSE (IF items[1] \in keep THEN << items[1] >> ELSE << >>)
         \o Keep(Tail(items), keep)

Positions(n) == [i \in 1..n |-> i]

\* dict_factory(cursor, row): a dict keeps one entry per key, at the place of
\* the key's first occurrence
dict_factory(description, row) ==
    LET first == { i \in 1..Len(description) :
                     \A j \in 1..(i - 1) : description[j] # description[i] }
        keep == Keep(Positions(Len(description)), first)
        last(i) == CHOOSE j \in 1..Len(description) :
                      /\ description[j] = description[i]
                      /\ \A k \in (j + 1)..Len(description) :
                             description[k] # description[i]
    IN  [keys |-> [i \in 1..Len(keep) |-> description[keep[i]]],
         vals |-> [i \in 1..Len(keep) |-> row[last(keep[i])]]]

Result(err, rows) == [err |-> err, rows |-> rows]

\* cursor.fetchall() of a prepared statement on conn; rf is the cursor's
\* row factory
Fetch(stmt, conn, rf) ==
    LET Send(description, out) ==
            Result("", [i \in 1..Len(out) |->
                           IF rf THEN dict_factory(description, out[i])
                           ELSE [keys |-> << >>, vals |-> out[i]]])
        Cut(description, tuples) ==
            Send(description, IF stmt.distinct THEN Distinct(tuples, << >>)
                              ELSE tuples)
        Project(cols, rows, kept, proj) ==
            Cut([i \in 1..Len(proj) |-> cols[proj[i]].name],
                [i \in 1..Len(kept) |->
                    [j \in 1..Len(proj) |-> rows[kept[i]][proj[j]]]])
        Filter(cols, rows, vals) ==
            IF \E i \in 1..Len(rows) : vals[i].k = "unsupported"
            THEN Result("Unsupported", << >>)
            ELSE IF \E i \in 1..Len(rows) : vals[i].k = "error"
            THEN Result("OperationalError", << >>)
            ELSE Project(cols, rows,
                         Keep(Positions(Len(rows)),
                              { i \in 1..Len(rows) : Truth(vals[i]) = "true" }),
                         IF stmt.star THEN Positions(Len(cols))
                         ELSE [i \in 1..Len(stmt.cols) |->
                                  ColIndex(cols, stmt.cols[i])])
        Scan(cols, rows) ==
            Filter(cols, rows,
                   [i \in 1..Len(rows) |-> Eval(stmt.where, rows[i], cols)])
        Read(df) ==
            Scan(TableCols(df),
                 IF conn.table = "full" THEN TableRows(df) ELSE << >>)
    IN  Read(Sources[conn.df].df)
----------------------------------------------------------------------------
(* The requests served: the keyword arguments generic_get is called with.   *)
(* The first NInterleaved of them are also served while a lifecycle call   *)
(* runs on another thread.                                                 *)

Requests ==
    << << >>,
       << Arg(<<"n","a","m","e","_","r","e","g","e","x">>, StrV(<<"^","a","n">>)),
          Arg(<<"a","g","e","_","l","e","s","s","T","h","a","n","E","q","u","a","l">>, IntV(30)) >>,
       << Arg(<<"n","a","m","e","_","c","o","n","t","a","i","n","s">>, StrV(<<"a","n">>)),
          Arg(<<"a","g","e","_","g","r","e","a","t","e","r","T","h","a","n">>, IntV(30)) >>,
       << Arg(<<"u","s","e","_","d","i","s","t","i","n","c","t">>, BoolV(TRUE)),
          Arg(<<"n","a","m","e","_","s","e","l","e","c","t","e","d">>, BoolV(TRUE)) >>,
       << Arg(<<"a","g","e","_","s","e","l","e","c","t","e","d">>, BoolV(TRUE)),
          Arg(<<"n","a","m","e","_","s","e","l","e","c","t","e","d">>, BoolV(TRUE)) >>,
       << Arg(<<"n","a","m","e","_","s","e","l","e","c","t","e","d">>, BoolV(FALSE)) >>,
       << Arg(<<"u","s","e","_","d","i","s","t","i","n","c","t">>, BoolV(FALSE)),
          Arg(<<"n","a","m","e">>, StrV(<<"a","n","n","a">>)) >>,
       << Arg(<<"u","n","k","n","o","w","n","_","c","o","l">>, StrV(<<"x">>)) >>,
       << Arg(<<"a","g","e","_","g","r","e","a","t","e","r","T","h","a","n">>, IntV(30)),
          Arg(<<"a","g","e","_","l","i","k","e">>, StrV(<<"3","_">>)) >>,
       << Arg(<<"n","a","m","e">>, StrV(<<"a","'"," ","O","R"," ","'","a","'","=","'","a">>)),
          Arg(<<"a","g","e","_","g","r","e","a","t","e","r","T","h","a","n">>, IntV(30)) >>,
       << Arg(<<"n","a","m","e">>, StrV(<<"O","'","B","r","i","e","n">>)) >>,
       << Arg(<<"n","a","m","e","_","c","o","n","t","a","i","n","s">>, StrV(<<"'",")"," ",">"," ","0"," ","-","-">>)),
          Arg(<<"a","g","e","_","l","e","s","s","T","h","a","n">>, IntV(0)) >>,
       << Arg(<<"n","a","m","e","_","r","e","g","e","x">>, StrV(<<"[","i","n","v","a","l","i","d","(">>)) >>,
       << Arg(<<"n","a","m","e","_","l","i","k","e">>, StrV(<<"%","N","_">>)),
          Arg(<<"a","g","e">>, NoneV) >>,
       << Arg(<<"j","o","i","n","e","d","_","i","s","B","e","f","o","r","e">>, StrV(<<"2","0","2","0","-","0","6","-","0","1">>)),
          Arg(<<"a","g","e","_","g","r","e","a","t","e","r","T","h","a","n","E","q","u","a","l">>, IntV(34)) >>,
       << Arg(<<"j","o","i","n","e","d","_","i","s","A","f","t","e","r">>, StrV(<<"2","0","2","0","-","0","1","-","1","5">>)) >>,
       << Arg(<<"a","g","e">>, IntV(34)),
          Arg(<<"j","o","i","n","e","d">>, StrV(<<"2","0","2","0","-","0","1","-","1","5">>)),
          Arg(<<"j","o","i","n","e","d","_","s","e","l","e","c","t","e","d">>, BoolV(TRUE)) >>,
       << Arg(<<"s","c","o","r","e","_","l","e","s","s","T","h","a","n">>, FloatV(305)),
          Arg(<<"o","k">>, BoolV(TRUE)) >> >>

----------------------------------------------------------------------------
(* The state machine                                                       *)

NoCursor == [stmt |-> BadStmt(""), rf |-> FALSE]
NoResult == Result("", << >>)
NoSnap == [con |-> 0, conn |-> FreeConn]

\* a connection that has the table with its rows, the row factory and REGEXP
Loaded(conn) ==
    conn.st = "open" /\ conn.table = "full" /\ conn.rf /\ conn.fn

\* the connections after the objects nothing refers to are deallocated:
\* self.con and the request's connection (its cursor refers to it) stay
Collect(cs, c1, c2) ==
    [c \in DOMAIN cs |-> IF c \in {c1, c2} THEN cs[c] ELSE FreeConn]

\* the id of a new connection object
Alloc(cs) ==
    CHOOSE c \in DOMAIN cs :
        cs[c].st = "free" /\ \A d \in DOMAIN cs : cs[d].st = "free" => c <= d

HasFree(cs) == \E c \in DOMAIN cs : cs[c].st = "free"

Init ==
    /\ csv \in 1..Len(Sources)
    /\ phase = "new"
    /\ table_name = << >>
    /\ query_params = << >>
    /\ con = 0
    /\ conns = [c \in 1..MaxConn |-> FreeConn]
    /\ wpc = "idle" /\ w_op = "none" /\ w_df = 0 /\ w_res = "none"
    /\ qpc = "idle" /\ q_req = << >> /\ q_sql = << >> /\ q_con = 0
    /\ q_cur = NoCursor /\ q_res = NoResult
    /\ h_snap = NoSnap /\ h_over = << >>

wvars == <<wpc, w_op, w_df, w_res>>
qvars == <<qpc, q_req, q_sql, q_con, q_cur, q_res, h_snap>>
appvars == <<phase, table_name, query_params>>

\* FastAPI_CSV(csv_path).  When __init__ raises, the object is never bound to
\* a name and nothing it opened can be reached.  Otherwise update_database
\* has opened two connections and kept the second.
Construct ==
    /\ phase = "new"
    /\ LET df == Sources[csv].df
       IN  IF \/ ~Sources[csv].readable
              \/ to_sql_raises(df)
              \/ InitRaises(df)
           THEN /\ phase' = "crashed"
                /\ UNCHANGED <<table_name, query_params, con, conns>>
           ELSE /\ phase' = "up"
                /\ table_name' = Replace(Stem(csv_path), "-", "_")
                /\ query_params' = QueryParams(df)
                /\ con' = 2
                /\ conns' = [conns EXCEPT ![2] = Conn("open", "full", csv,
                                                      TRUE, TRUE)]
    /\ UNCHANGED <<csv, wvars, qvars, h_over>>

\* the file at csv_path is replaced, between the calls and the requests
EditCsv ==
    /\ phase = "up"
    /\ wpc = "idle"
    /\ qpc = "idle"
    /\ \E s \in 1..Len(Sources) : s # csv /\ csv' = s
    /\ UNCHANGED <<appvars, con, conns, wvars, qvars, h_over>>

\* app.delete_database() or app.update_database() is called
Call(op) ==
    /\ phase = "up"
    /\ wpc = "idle"
    /\ wpc' = "delete"
    /\ w_op' = op
    /\ w_df' = 0
    /\ w_res' = "none"
    /\ IF qpc = "idle"
       THEN h_over' = h_over
       ELSE Len(h_over) < MaxOverlap /\ h_over' = Append(h_over, op)
    /\ UNCHANGED <<csv, appvars, con, conns, qvars>>

CallDelete == Call("delete")
CallUpdate == Call("update")

\* delete_database returns: to its caller, or into update_database
AfterDelete ==
    IF w_op = "delete"
    THEN wpc' = "idle" /\ w_res' = "ok" /\ w_op' = "none"
    ELSE wpc' = "connect" /\ w_res' = w_res /\ w_op' = w_op

\* delete_database: if self.con is not None: self.con.close()
DeleteClose ==
    /\ wpc = "delete"
    /\ IF con = 0
       THEN AfterDelete /\ conns' = conns
       ELSE /\ conns' = [conns EXCEPT ![con].st = "closed"]
            /\ wpc' = "clear"
            /\ w_res' = w_res /\ w_op' = w_op
    /\ UNCHANGED <<csv, appvars, con, w_df, qvars, h_over>>

\* delete_database: self.con = None
DeleteClear ==
    /\ wpc = "clear"
    /\ con' = 0
    /\ conns' = Collect(conns, 0, q_con)
    /\ AfterDelete
    /\ UNCHANGED <<csv, appvars, w_df, qvars, h_over>>

\* self.con = sqlite3.connect(":memory:", check_same_thread=False), the
\* first one and, after read_csv, the second
Connect(at, next) ==
    /\ wpc = at
    /\ HasFree(conns)
    /\ LET c == Alloc(conns)
       IN  /\ con' = c
           /\ conns' = Collect([conns EXCEPT ![c] = NewConn], c, q_con)
    /\ wpc' = next
    /\ UNCHANGED <<csv, appvars, w_op, w_df, w_res, qvars, h_over>>

Connect1 == Connect("connect", "read_csv")
Connect2 == Connect("connect2", "to_sql")

\* update_database ends with an exception
Fail ==
    /\ wpc' = "idle"
    /\ w_op' = "none"
    /\ w_df' = 0
    /\ w_res' = "raised"

\* df = pd.read_csv(self.csv_path, engine='python')
ReadCsv ==
    /\ wpc = "read_csv"
    /\ IF Sources[csv].readable
       THEN wpc' = "connect2" /\ w_df' = csv /\ UNCHANGED <<w_op, w_res>>
       ELSE Fail
    /\ UNCHANGED <<csv, appvars, con, conns, qvars, h_over>>

\* df.to_sql(self.table_name, self.con): CREATE TABLE
ToSqlCreate ==
    /\ wpc = "to_sql"
    /\ IF to_sql_raises(Sources[w_df].df)
       THEN /\ Fail
            /\ conns' = conns
       ELSE /\ wpc' = "insert"
            /\ UNCHANGED <<w_op, w_df, w_res>>
            /\ conns' = [conns EXCEPT ![con].table = "empty",
                                      ![con].df = w_df]
    /\ UNCHANGED <<csv, appvars, con, qvars, h_over>>

\* df.to_sql(self.table_name, self.con): INSERT of the rows
ToSqlInsert ==
    /\ wpc = "insert"
    /\ conns' = [conns EXCEPT ![con].table = "full"]
    /\ wpc' = "row_factory"
    /\ UNCHANGED <<csv, appvars, con, w_op, w_df, w_res, qvars, h_over>>

\* self.con.row_factory = dict_factory
SetRowFactory ==
    /\ wpc = "row_factory"
    /\ conns' = [conns EXCEPT ![con].rf = TRUE]
    /\ wpc' = "create_function"
    /\ UNCHANGED <<csv, appvars, con, w_op, w_df, w_res, qvars, h_over>>

\* self.con.create_function("REGEXP", 2, regexp); return df
CreateFunction ==
    /\ wpc = "create_function"
    /\ conns' = [conns EXCEPT ![con].fn = TRUE]
    /\ wpc' = "idle"
    /\ w_op' = "none"
    /\ w_df' = 0
    /\ w_res' = "ok"
    /\ UNCHANGED <<csv, appvars, con, qvars, h_over>>

\* a request arrives, one of the first n: generic_get(**kwargs) builds
\* sql_query
Arrive(n) ==
    /\ phase = "up"
    /\ qpc = "idle"
    /\ \E r \in 1..n :
           /\ q_req' = Requests[r]
           /\ q_sql' = generic_get(Requests[r], table_name)
    /\ qpc' = "con"
    /\ q_res' = NoResult
    /\ h_snap' = [con |-> con,
                  conn |-> IF con = 0 THEN FreeConn ELSE conns[con]]
    /\ h_over' = IF wpc = "idle" THEN << >> ELSE <<w_op>>
    /\ UNCHANGED <<csv, appvars, con, conns, wvars, q_con, q_cur>>

Request == Arrive(NInterleaved)

\* the request ends with an exception
Raise(err) ==
    /\ q_res' = Result(err, << >>)
    /\ qpc' = "done"

\* query_database: self.con is evaluated; None has no attribute execute
LoadCon ==
    /\ qpc = "con"
    /\ IF con = 0
       THEN Raise("AttributeError") /\ q_con' = q_con
       ELSE q_con' = con /\ qpc' = "execute" /\ q_res' = q_res
    /\ UNCHANGED <<csv, appvars, con, conns, wvars, q_req, q_sql, q_cur,
                   h_snap, h_over>>

\* query_database: cur = <connection>.execute(sql_query)
Execute ==
    /\ qpc = "execute"
    /\ LET Prepared(conn, stmt, err) ==
               IF conn.st = "closed"
               THEN Raise("ProgrammingError") /\ q_cur' = q_cur
               ELSE IF err # ""
               THEN Raise(err) /\ q_cur' = q_cur
               ELSE /\ q_cur' = [stmt |-> stmt, rf |-> conn.rf]
                    /\ qpc' = "fetchall"
                    /\ q_res' = q_res
           Prepare(conn, stmt) ==
               Prepared(conn, stmt, PrepareError(stmt, conn, table_name))
       IN  Prepare(conns[q_con], Compile(q_sql))
    /\ UNCHANGED <<csv, appvars, con, conns, wvars, q_req, q_sql, q_con,
                   h_snap, h_over>>

\* query_database: dicts = cur.fetchall()
Fetchall ==
    /\ qpc = "fetchall"
    /\ IF conns[q_con].st = "closed"
       THEN Raise("ProgrammingError")
       ELSE q_res' = Fetch(q_cur.stmt, conns[q_con], q_cur.rf) /\ qpc' = "done"
    /\ UNCHANGED <<csv, appvars, con, conns, wvars, q_req, q_sql, q_con,
                   q_cur, h_snap, h_over>>

\* the response is sent; the request's locals are dropped
Return ==
    /\ qpc = "done"
    /\ qpc' = "idle"
    /\ q_req' = << >> /\ q_sql' = << >> /\ q_con' = 0
    /\ q_cur' = NoCursor /\ q_res' = NoResult
    /\ h_snap' = NoSnap
    /\ h_over' = << >>
    /\ conns' = Collect(conns, con, 0)
    /\ UNCHANGED <<csv, appvars, con, wvars>>

\* the endpoint and the lifecycle methods running on different threads
Next ==
    \/ Construct \/ EditCsv
    \/ CallDelete \/ CallUpdate
    \/ DeleteClose \/ DeleteClear
    \/ Connect1 \/ ReadCsv \/ Connect2
    \/ ToSqlCreate \/ ToSqlInsert \/ SetRowFactory \/ CreateFunction
    \/ Request \/ LoadCon \/ Execute \/ Fetchall \/ Return

Spec == Init /\ [][Next]_vars

\* one thread: a lifecycle call is made only between requests, and a request
\* arrives only between lifecycle calls
SeqCallDelete == qpc = "idle" /\ CallDelete
SeqCallUpdate == qpc = "idle" /\ CallUpdate
SeqRequest == wpc = "idle" /\ Arrive(Len(Requests))

SeqNext ==
    \/ Construct \/ EditCsv
    \/ SeqCallDelete \/ SeqCallUpdate
    \/ DeleteClose \/ DeleteClear
    \/ Connect1 \/ ReadCsv \/ Connect2
    \/ ToSqlCreate \/ ToSqlInsert \/ SetRowFactory \/ CreateFunction
    \/ SeqRequest \/ LoadCon \/ Execute \/ Fetchall \/ Return

SeqSpec == Init /\ [][SeqNext]_vars

----------------------------------------------------------------------------
(* Notions of the specification the properties are stated with             *)

\* the names of a sequence of parameters
ParamNames(params) == [i \in 1..Len(params) |-> params[i].name]

\* the Grammar accepts the name
InGrammar(name) ==
    \E i \in 1..Len(query_params) : query_params[i].name = name

\* the columns the Grammar was generated for, in declared order
GrammarColumns ==
    Keep(ParamNames(query_params),
         { query_params[i].name : i \in
             { j \in 1..Len(query_params) :
                 InGrammar(query_params[j].name \o <<"_","s","e","l","e","c","t","e","d">>) } })

\* the columns of the table a connection holds, in declared order
SnapshotColumns(conn) ==
    [c \in 1..Len(Sources[conn.df].df.cols) |->
        Sources[conn.df].df.cols[c].name]

\* the request was received by a loaded store whose table has the columns of
\* the Grammar
OnGrammarSnapshot ==
    /\ Loaded(h_snap.conn)
    /\ SnapshotColumns(h_snap.conn) = GrammarColumns

\* SemanticType of column c of df (4.1)
SemanticType(df, c) ==
    LET type_ == dtype_to_type(df.cols[c].dtype)
        values == ColumnValues(df, c)
    IN  IF type_ = "int" THEN "Integer"
        ELSE IF type_ = "float" THEN "Float"
        ELSE IF type_ = "bool" THEN "Boolean"
        ELSE IF is_date_string(values[first_valid_index(values, 1)].s)
        THEN "DateLike"
        ELSE "String"

\* the suffixes of the parameters a column of a type gets (4.2)
Suffixes(type) ==
    { << >>, <<"_","s","e","l","e","c","t","e","d">> }
    \cup (IF type \in {"Integer", "Float"}
          THEN { <<"_","g","r","e","a","t","e","r","T","h","a","n">>, <<"_","g","r","e","a","t","e","r","T","h","a","n","E","q","u","a","l">>, <<"_","l","e","s","s","T","h","a","n">>,
                 <<"_","l","e","s","s","T","h","a","n","E","q","u","a","l">> }
          ELSE { })
    \cup (IF type \in {"String", "DateLike"}
          THEN { <<"_","c","o","n","t","a","i","n","s">>, <<"_","l","i","k","e">>, <<"_","r","e","g","e","x">> }
          ELSE { })
    \cup (IF type = "DateLike" THEN { <<"_","i","s","B","e","f","o","r","e">>, <<"_","i","s","A","f","t","e","r">> } ELSE { })

\* the parameter names of the Grammar of a table (4.2)
ExpectedNames(df) ==
    { <<"u","s","e","_","d","i","s","t","i","n","c","t">> }
    \cup UNION { { df.cols[c].name \o s :
                      s \in Suffixes(SemanticType(df, c)) } :
                 c \in 1..Len(df.cols) }

\* how often a name occurs among parameters
Occurrences(name, params) ==
    Cardinality({ i \in 1..Len(params) : params[i].name = name })

\* the operators with a suffix (3, OperatorKind)
Operators ==
    { [suffix |-> <<"_","s","e","l","e","c","t","e","d">>, kind |-> "SelectFlag"],
      [suffix |-> <<"_","g","r","e","a","t","e","r","T","h","a","n">>, kind |-> "GreaterThan"],
      [suffix |-> <<"_","g","r","e","a","t","e","r","T","h","a","n","E","q","u","a","l">>, kind |-> "GreaterThanOrEqual"],
      [suffix |-> <<"_","l","e","s","s","T","h","a","n">>, kind |-> "LessThan"],
      [suffix |-> <<"_","l","e","s","s","T","h","a","n","E","q","u","a","l">>, kind |-> "LessThanOrEqual"],
      [suffix |-> <<"_","c","o","n","t","a","i","n","s">>, kind |-> "Contains"],
      [suffix |-> <<"_","l","i","k","e">>, kind |-> "Like"],
      [suffix |-> <<"_","r","e","g","e","x">>, kind |-> "MatchesRegex"],
      [suffix |-> <<"_","i","s","B","e","f","o","r","e">>, kind |-> "IsBefore"],
      [suffix |-> <<"_","i","s","A","f","t","e","r">>, kind |-> "IsAfter"] }

\* name is column \o suffix for a column of the Grammar
Suffixed(name, suffix) ==
    /\ EndsWith(name, suffix)
    /\ \E c \in 1..Len(GrammarColumns) :
           GrammarColumns[c] = DropLast(name, Len(suffix))

\* the ParameterSpec of a name of the Grammar: target column and operator
ParameterSpec(name) ==
    IF name = <<"u","s","e","_","d","i","s","t","i","n","c","t">>
    THEN [column |-> << >>, operator |-> "Distinct"]
    ELSE IF \E o \in Operators : Suffixed(name, o.suffix)
    THEN LET o == CHOOSE o \in Operators : Suffixed(name, o.suffix)
         IN  [column |-> DropLast(name, Len(o.suffix)), operator |-> o.kind]
    ELSE [column |-> name, operator |-> "Equals"]

\* every supplied name is in the Grammar
AllKnown(kwargs) ==
    \A i \in 1..Len(kwargs) :
        kwargs[i].val.k # "none" => InGrammar(kwargs[i].name)

\* the supplied entries with one of the operators
RECURSIVE Supplied(_, _)
Supplied(kwargs, kinds) ==
    IF kwargs = << >> THEN << >>
    ELSE (IF /\ kwargs[1].val.k # "none"
             /\ ParameterSpec(kwargs[1].name).operator \in kinds
          THEN << kwargs[1] >> ELSE << >>)
         \o Supplied(Tail(kwargs), kinds)

FilterKinds ==
    { "Equals", "GreaterThan", "GreaterThanOrEqual", "LessThan",
      "LessThanOrEqual", "Contains", "Like", "MatchesRegex", "IsBefore",
      "IsAfter" }

\* the supplied filter parameters, in the order supplied
Filters(kwargs) == Supplied(kwargs, FilterKinds)

\* a predicate of the store on column with operator kind, the value being
\* its bound operand
Predicate(column, kind, val) ==
    LET operand == Lit(Stored(val))
        Compared(f) == Cmp(f, ColRef(column), operand)
    IN  CASE kind = "Equals" -> Compared(<<"=">>)
          [] kind = "GreaterThan" -> Compared(<<">">>)
          [] kind = "GreaterThanOrEqual" -> Compared(<<">","=">>)
          [] kind = "LessThan" -> Compared(<<"<">>)
          [] kind = "LessThanOrEqual" -> Compared(<<"<","=">>)
          [] kind = "Like" -> Compared(<<"l","i","k","e">>)
          [] kind = "MatchesRegex" -> Compared(<<"r","e","g","e","x","p">>)
          [] kind = "Contains" ->
                 Cmp(<<">">>, FnCall(<<"i","n","s","t","r">>, << ColRef(column), operand >>),
                     Lit(IntV(0)))
          [] kind = "IsBefore" ->
                 Cmp(<<"<">>, FnCall(<<"d","a","t","e">>, << ColRef(column) >>),
                     FnCall(<<"d","a","t","e">>, << operand >>))
          [] kind = "IsAfter" ->
                 Cmp(<<">">>, FnCall(<<"d","a","t","e">>, << ColRef(column) >>),
                     FnCall(<<"d","a","t","e">>, << operand >>))

\* the predicates of a parameter map (4.3), in the order supplied
Predicates(kwargs) ==
    LET filters == Filters(kwargs)
    IN  [i \in 1..Len(filters) |->
            Predicate(ParameterSpec(filters[i].name).column,
                      ParameterSpec(filters[i].name).operator,
                      filters[i].val)]

\* the predicates a statement combines with AND
RECURSIVE Conjuncts(_)
Conjuncts(node) ==
    IF node.op = "and" THEN Conjuncts(node.l) \o Conjuncts(node.r)
    ELSE << node >>

\* the predicates of a statement; one without WHERE has none
StatementPredicates(stmt) ==
    IF stmt.where = Lit(IntV(1)) THEN << >> ELSE Conjuncts(stmt.where)

\* the rows of a table for which every predicate holds, in row order,
\* each as the values of the declared columns (4.4)
MatchingRows(predicates, df) ==
    LET cols == TableCols(df)
        rows == TableRows(df)
        holds == { i \in 1..Len(rows) :
                     \A p \in 1..Len(predicates) :
                         Truth(Eval(predicates[p], rows[i], cols)) = "true" }
        kept == Keep(Positions(Len(rows)), holds)
    IN  [i \in 1..Len(kept) |->
            [c \in 1..Len(df.cols) |->
                rows[kept[i]][ColIndex(cols, df.cols[c].name)]]]

\* a predicate cannot be evaluated on some row (an invalid pattern)
PredicateFails(predicates, df) ==
    \E i \in 1..Len(df.rows), p \in 1..Len(predicates) :
        Failing(Eval(predicates[p], TableRows(df)[i], TableCols(df)))

\* the value of a key in a row-mapping
Lookup(mapping, key) ==
    mapping.vals[CHOOSE j \in 1..Len(mapping.keys) : mapping.keys[j] = key]

\* the values of the named columns in each returned row-mapping
Cells(rows, names) ==
    [i \in 1..Len(rows) |-> [c \in 1..Len(names) |-> Lookup(rows[i], names[c])]]

\* the columns a parameter map selects (4.3, SelectFlag with boolean true)
Selected(kwargs) ==
    { ParameterSpec(kwargs[i].name).column : i \in
        { j \in 1..Len(kwargs) :
            /\ kwargs[j].val = BoolV(TRUE)
            /\ ParameterSpec(kwargs[j].name).operator = "SelectFlag" } }

\* the keys of a returned row-mapping (4.4, Projection)
ProjectedColumns(kwargs) ==
    IF Selected(kwargs) = { } THEN GrammarColumns
    ELSE Keep(GrammarColumns, Selected(kwargs))

\* a select flag is supplied with the value false
FalseFlag(arg) ==
    arg.val = BoolV(FALSE) /\ ParameterSpec(arg.name).operator = "SelectFlag"

\* the parameter map without the select flags that are false
RECURSIVE WithoutFalseFlags(_)
WithoutFalseFlags(kwargs) ==
    IF kwargs = << >> THEN << >>
    ELSE (IF FalseFlag(kwargs[1]) THEN << >> ELSE << kwargs[1] >>)
         \o WithoutFalseFlags(Tail(kwargs))

\* the projection of the statement of SQL text
Projection(sql) ==
    LET Of(stmt) == [err |-> stmt.err, star |-> stmt.star, cols |-> stmt.cols]
    IN  Of(Compile(sql))

\* what executing SQL text on a connection gives
Answer(sql, conn, table) ==
    LET Run(stmt, err) ==
            IF err # "" THEN Result(err, << >>) ELSE Fetch(stmt, conn, conn.rf)
        Prepare(stmt) == Run(stmt, PrepareError(stmt, conn, table))
    IN  Prepare(Compile(sql))

----------------------------------------------------------------------------
(* The properties                                                          *)

\* C1: while update_database runs on a loaded store, self.con refers in
\* every state to a fully loaded, open store: a step of the reload that
\* starts with such a store as the active one ends with one (the old store
\* until the new one is complete, then the new one).
C1_ReloadKeepsLoadedStore ==
    [][ (w_op = "update" /\ con # 0 /\ Loaded(conns[con]))
        => (con' # 0 /\ Loaded(conns'[con'])) ]_vars

\* C2: a request served while one update_database call runs, received by a
\* loaded store, ends with exactly what its query gives on the store that
\* was active when the request was received.
C2_QueryUnaffectedByReload ==
    (qpc = "done" /\ h_over = << "update" >> /\ Loaded(h_snap.conn))
    => q_res = Answer(q_sql, h_snap.conn, table_name)

\* C3: a request received after delete_database ends with
\* StoreUnavailableError, and delete_database leaves the accepted
\* parameters and the table name as they were.
C3_ClosedStoreUnavailable ==
    [][ /\ (qpc = "con" /\ qpc' = "done" /\ wpc = "idle" /\ con = 0)
           => q_res'.err = "StoreUnavailableError"
        /\ (w_op = "delete" \/ w_op' = "delete")
           => (table_name' = table_name /\ query_params' = query_params) ]_vars

\* C4: a request with a supplied name that is not in the Grammar ends with
\* UnknownParameterError and its query is never executed.
C4_UnknownParameterRejected ==
    (qpc \in {"fetchall", "done"} /\ Loaded(h_snap.conn) /\ ~AllKnown(q_req))
    => (qpc = "done" /\ q_res.err = "UnknownParameterError")

\* C5: the parameters __init__ generates are exactly use_distinct and, for
\* every column, the names the column's type calls for, each once.
C5_GeneratedParameters ==
    [][ (phase = "new" /\ phase' = "up")
        => /\ \A n \in ExpectedNames(Sources[csv].df) :
                  Occurrences(n, query_params') = 1
           /\ \A i \in 1..Len(query_params') :
                  query_params'[i].name \in ExpectedNames(Sources[csv].df)
      ]_vars

\* C5 happens: the parameters were generated for a table with a Float, a
\* Boolean, a String and a DateLike column
C5_Witness ==
    /\ phase = "up"
    /\ InGrammar(<<"s","c","o","r","e","_","l","e","s","s","T","h","a","n">>)
    /\ InGrammar(<<"o","k","_","s","e","l","e","c","t","e","d">>)
    /\ InGrammar(<<"n","o","t","e","_","r","e","g","e","x">>)
    /\ InGrammar(<<"d","a","y","_","i","s","A","f","t","e","r">>)
    /\ ~InGrammar(<<"o","k","_","l","e","s","s","T","h","a","n">>)

\* C6: the statement that reaches the store has exactly the predicates of
\* the supplied filter parameters, each on its column with its operator and
\* the supplied value as operand, and projects only columns named by a
\* select flag.
C6_ValuesAreOperands ==
    (qpc # "idle" /\ AllKnown(q_req))
    => /\ Compile(q_sql).err = ""
       /\ StatementPredicates(Compile(q_sql)) = Predicates(q_req)
       /\ \A c \in 1..Len(Compile(q_sql).cols) :
              \E i \in 1..Len(q_req) :
                  q_req[i].name = Compile(q_sql).cols[c] \o <<"_","s","e","l","e","c","t","e","d">>

\* C7: a request with filter parameters only returns the rows of the
\* snapshot for which every predicate holds, in row order (every row when
\* there is no filter).
C7_ConjunctionOfPredicates ==
    (/\ qpc = "done"
     /\ OnGrammarSnapshot
     /\ AllKnown(q_req)
     /\ Filters(q_req) = Supplied(q_req, FilterKinds \cup {"SelectFlag",
                                                          "Distinct"})
     /\ ~PredicateFails(Predicates(q_req), Sources[h_snap.conn.df].df))
    => /\ q_res.err = ""
       /\ \A i \in 1..Len(q_res.rows), c \in 1..Len(GrammarColumns) :
              \E j \in 1..Len(q_res.rows[i].keys) :
                  q_res.rows[i].keys[j] = GrammarColumns[c]
       /\ Cells(q_res.rows, GrammarColumns)
              = MatchingRows(Predicates(q_req), Sources[h_snap.conn.df].df)

\* C8: after update_database has raised, every connection that is open
\* holds the table with its rows: self.con is not a store without the table
\* and nothing the failed load opened is left open.
C8_NoDefunctStore ==
    w_res = "raised"
    => \A c \in 1..MaxConn : conns[c].st = "open" => Loaded(conns[c])

\* C9: every returned row-mapping has exactly the declared columns in
\* declared order as keys or, when columns are selected, exactly the
\* selected columns in the order the Grammar declares them.
C9_Projection ==
    (/\ qpc = "done"
     /\ q_res.err = ""
     /\ OnGrammarSnapshot
     /\ AllKnown(q_req)
     /\ WithoutFalseFlags(q_req) = q_req)
    => \A i \in 1..Len(q_res.rows) :
           q_res.rows[i].keys = ProjectedColumns(q_req)

\* C10: a request with <col>_selected=false has the projection of the same
\* request without that parameter.
C10_FalseFlagIsOmitted ==
    (qpc # "idle" /\ AllKnown(q_req))
    => Projection(q_sql)
           = Projection(generic_get(WithoutFalseFlags(q_req), table_name))

====
